---- MODULE Spec2Model ----
(***************************************************************************)
(* TailFS: the composite filesystem (compositefs), the read-only remote    *)
(* file (webdavfs), the remote gateway (fileSystemForRemote) with its      *)
(* permission gate, its user servers and its dialers, the local gateway    *)
(* (fileSystemForLocal), and the operations of the WebDAV handler that     *)
(* reach them.                                                             *)
(*                                                                         *)
(* Paths are sequences of tokens: "/" is the separator and every other     *)
(* token is one path segment.  Paths handed to a child filesystem are      *)
(* strings, built the way path.Join builds them.                           *)
(***************************************************************************)
EXTENDS Integers, Sequences, FiniteSets, TLC

VARIABLES
    \* ---- remote gateway (fileSystemForRemote) ----
    shares,            \* s.shares: share name -> owner (Share.As)
    fileSystems,       \* s.fileSystems: share name -> filesystem object
    userServers,       \* s.userServers: owner -> user server object
    setSharesCalls,    \* number of SetShares calls made (names fresh objects)
    closedFileSystems, \* filesystem objects closed by closeFileSystems
    closedUserServers, \* user servers closed by stopUserServers
    lastReq,           \* the request ServeHTTP handled last, until its
                       \* response is taken by the peer
    lastResp,          \* what ServeHTTP did with it
    \* ---- one shared composite (compositeFileSystem) ----
    childrenMap,       \* cfs.childrenMap: name -> child
    children,          \* cfs.children: children sorted by name
    statChildren,      \* cfs.statChildren (Opts.StatChildren)
    pc,                \* per caller: where it is inside a composite operation
    loc,               \* per caller: the locals of the operation in progress
    ret,               \* what the operation completed by the last step returned
    closeCount,        \* per child filesystem: number of Close() calls received
    scenario,          \* what the composite was last asked: a RemoveChild(n)
                       \* that returned (stage 1) and the AddChild(n, c') that
                       \* followed it (stage 2), a SetChildren (stage 3), or a
                       \* Close that returned (stage 4)
    \* ---- one read-only remote file (readOnlyFile) ----
    fi,                \* f.fi: the refreshed file info
    readCloser,        \* f.ReadCloser: the stream, and whether it is closed
    fileCalls,         \* calls made on the client and on the stream, counted
    filePc,            \* per caller: where it is inside Read
    fileClosed,        \* whether Close has been called on the file
    fileRet,           \* what the file operation completed by the last step
                       \* returned
    \* ---- user servers and the dialers of the remote gateway ----
    servers,           \* per user server object: the position of its
                       \* runLoop, s.cmd, s.addr and the subprocesses it
                       \* has started (s.closed is closedUserServers)
    calls,             \* per SetShares call: its position and its locals
    fileServerAddr,    \* s.fileServerAddr
    allowShareAs,      \* what AllowShareAs() returns on this platform
    dial,              \* the Dial closure of a share's transport: its
                       \* position, its locals and its result
    \* ---- local gateway (fileSystemForLocal) ----
    domains,           \* s.cfs children: domain -> domain composite
    composites,        \* per domain composite: its children (name -> remote
                       \* filesystem)
    remotesClosed,     \* remote filesystems that received Close()
    setRemotes,        \* per SetRemotes call: its position and its locals
    \* ---- the composite's mutex and the calls made on children ----
    childrenMu,        \* cfs.childrenMu: free, or the caller holding it
    todo               \* per caller: the lock, unlock and child-call steps
                       \* its operation still has to make

gatewayVars ==
    <<shares, fileSystems, userServers, setSharesCalls, closedFileSystems,
      closedUserServers, lastReq, lastResp>>

compositeVars ==
    <<childrenMap, children, statChildren, pc, loc, ret, closeCount, scenario>>

fileVars == <<fi, readCloser, fileCalls, filePc, fileClosed, fileRet>>

serverVars == <<servers, calls, fileServerAddr, allowShareAs, dial>>

localVars == <<domains, composites, remotesClosed, setRemotes>>

muVars == <<childrenMu, todo>>

vars == <<gatewayVars, compositeVars, fileVars, serverVars, localVars, muVars>>

\* What an operation of one component leaves alone in the others.
nonGatewayVars == <<compositeVars, fileVars, localVars, muVars>>
nonCompositeVars == <<gatewayVars, fileVars, serverVars, localVars, muVars>>
nonFileVars == <<gatewayVars, compositeVars, serverVars, localVars, muVars>>
nonLocalVars == <<gatewayVars, compositeVars, fileVars, serverVars, muVars>>
nonMuVars == <<gatewayVars, compositeVars, fileVars, serverVars, localVars>>

-----------------------------------------------------------------------------
(* Bounds of the model *)

\* SetShares calls explored on the remote gateway
MaxSetShares == 2
\* Close() calls counted per child filesystem
MaxCloses == 2
\* calls of one kind a remote file makes on its client or on its stream
MaxFileCalls == 2
\* The steps a caller has pending, at most (bounds the calls back a child
\* makes).
MaxTodo == 4

-----------------------------------------------------------------------------
(* Names and paths *)

\* The names children of the shared composite are bound to: one is a proper
\* prefix of another.
Names == {"a", "ab", "b"}

\* The bytes Go compares a name by.

NameBytes(n) ==
    CASE n = "a" -> <<97>>
      [] n = "ab" -> <<97, 98>>
      [] n = "b" -> <<98>>
      [] OTHER -> <<120>>

\* The shares of the remote gateway, and a segment that names none of them.
ShareNames == {"a", "b"}

\* Request paths: the root, a first segment alone, and a file below a first
\* segment.
GatewayPaths ==
    {<<"/">>}
    \cup {<<"/", s>> : s \in ShareNames \cup {"x"}}
    \cup {<<"/", s, "/", "x">> : s \in ShareNames \cup {"x"}}

RECURSIVE Render(_)
\* The string a token sequence stands for.
Render(p) == IF p = <<>> THEN "" ELSE Head(p) \o Render(Tail(p))

\* pathutil.IsRoot
IsRoot(p) == p = <<"/">>

\* pathutil.Split: the components, empty leading and trailing entries removed.
Split(p) == SelectSeq(p, LAMBDA t : t # "/")

RECURSIVE Join(_)
\* path.Join: the non-empty elements joined by "/"; no element gives "".
Join(parts) ==
    IF parts = <<>> THEN ""
    ELSE IF Len(parts) = 1 THEN parts[1]
    ELSE parts[1] \o "/" \o Join(Tail(parts))

RECURSIVE BytesLess(_, _)
\* Go's < on strings: lexicographic on bytes, a proper prefix is smaller.
BytesLess(x, y) ==
    IF y = <<>> THEN FALSE
    ELSE IF x = <<>> THEN TRUE
    ELSE IF Head(x) # Head(y) THEN Head(x) < Head(y)
    ELSE BytesLess(Tail(x), Tail(y))

\* childrenByName.Less
Less(c1, c2) == BytesLess(NameBytes(c1.name), NameBytes(c2.name))

-----------------------------------------------------------------------------
(* The composite filesystem: its pure parts.  cm is childrenMap, ch is the   *)
(* children slice, sc is statChildren.  An operation yields its own error    *)
(* ("nil" when the composite raised none) and the calls it makes on child    *)
(* filesystems, in order.                                                    *)

\* A call on a child filesystem; write is set for a call that can change it.
ChildCall(f, op, path, write) ==
    [fs |-> f, op |-> op, path |-> path, write |-> write]

\* The nil *child.
NoChild == [name |-> "", fs |-> 0]

RECURSIVE SortByName(_)
\* sort.Sort over childrenByName: ascending by Less.
SortByName(S) ==
    IF S = {} THEN <<>>
    ELSE LET m == CHOOSE c \in S : \A d \in S \ {c} : Less(c, d)
         IN <<m>> \o SortByName(S \ {m})

RECURSIVE AnyOrder(_)
\* The children in the descending order: what is left when the sort is lost.
AnyOrder(S) ==
    IF S = {} THEN <<>>
    ELSE LET m == CHOOSE c \in S : \A d \in S \ {c} : Less(d, c)
         IN <<m>> \o AnyOrder(S \ {m})

\* A rebuild that appends the map's children and forgets to sort them.
rebuildChildrenUnsorted(cm) == AnyOrder({cm[n] : n \in DOMAIN cm})

\* compositeFileSystem.rebuildChildren: the slice rebuilt from the map.
rebuildChildren(cm) == SortByName({cm[n] : n \in DOMAIN cm})

\* A lookup that takes a child whose name begins with the first component.
pathToChildByPrefix(cm, name) ==
    LET pathComponents == Split(name)
        first == NameBytes(pathComponents[1])
        matches == {n \in DOMAIN cm :
                      /\ Len(first) <= Len(NameBytes(n))
                      /\ SubSeq(NameBytes(n), 1, Len(first)) = first}
        onChild == Len(pathComponents) > 1
    IN IF matches = {}
       THEN [path |-> Render(name), onChild |-> onChild, child |-> NoChild,
             err |-> "ErrNotExist"]
       ELSE [path |-> Join(Tail(pathComponents)), onChild |-> onChild,
             child |-> cm[CHOOSE n \in matches : TRUE], err |-> "nil"]

\* compositeFileSystem.pathToChild
pathToChild(cm, name) ==
    LET pathComponents == Split(name)
        childFound == pathComponents[1] \in DOMAIN cm
        onChild == Len(pathComponents) > 1
    IN IF ~childFound
       THEN [path |-> Render(name), onChild |-> onChild, child |-> NoChild,
             err |-> "ErrNotExist"]
       ELSE [path |-> Join(Tail(pathComponents)), onChild |-> onChild,
             child |-> cm[pathComponents[1]], err |-> "nil"]

\* The Stat("/") calls made on the children of a snapshot, in slice order.
StatEach(ch) == [i \in 1..Len(ch) |-> ChildCall(ch[i].fs, "Stat", "/", FALSE)]

\* compositeFileSystem.Stat
Stat(cm, ch, sc, name) ==
    IF IsRoot(name)
    THEN [err |-> "nil", calls |-> IF sc THEN StatEach(ch) ELSE <<>>]
    ELSE LET r == pathToChild(cm, name)
         IN IF r.err # "nil" THEN [err |-> r.err, calls |-> <<>>]
            ELSE IF ~r.onChild /\ ~sc THEN [err |-> "nil", calls |-> <<>>]
            ELSE [err |-> "nil",
                  calls |-> <<ChildCall(r.child.fs, "Stat", r.path, FALSE)>>]

\* The flags of OpenFile the WebDAV handler uses.
ReadFlag == "O_RDONLY"
WriteFlag == "O_RDWR|O_CREATE|O_TRUNC"

\* compositeFileSystem.OpenFile; on the root it stats the root and yields a
\* directory file.
OpenFile(cm, ch, sc, name, flag) ==
    IF IsRoot(name)
    THEN Stat(cm, ch, sc, name)
    ELSE LET r == pathToChild(cm, name)
         IN IF r.err # "nil" THEN [err |-> r.err, calls |-> <<>>]
            ELSE IF ~r.onChild
            THEN [err |-> "nil",
                  calls |-> <<ChildCall(r.child.fs, "OpenFile", "/",
                                        flag # ReadFlag)>>]
            ELSE [err |-> "nil",
                  calls |-> <<ChildCall(r.child.fs, "OpenFile", r.path,
                                        flag # ReadFlag)>>]

\* The LoadChildren closure of the root's directory file: one entry per child of
\* the snapshot, named by the child's full name.
LoadChildren(ch, sc) ==
    [calls |-> IF sc THEN StatEach(ch) ELSE <<>>,
     infos |-> [i \in 1..Len(ch) |-> ch[i].name]]

\* compositeFileSystem.Mkdir: refused on the root, otherwise routed.
Mkdir(cm, name) ==
    IF IsRoot(name) THEN [err |-> "ErrPermission", calls |-> <<>>]
    ELSE LET r == pathToChild(cm, name)
         IN IF r.err # "nil" THEN [err |-> r.err, calls |-> <<>>]
            ELSE [err |-> "nil",
                  calls |-> <<ChildCall(r.child.fs, "Mkdir",
                                        IF r.onChild THEN r.path ELSE "/",
                                        TRUE)>>]

\* compositeFileSystem.RemoveAll: refused on the root, otherwise routed.
RemoveAll(cm, name) ==
    IF IsRoot(name) THEN [err |-> "ErrPermission", calls |-> <<>>]
    ELSE LET r == pathToChild(cm, name)
         IN IF r.err # "nil" THEN [err |-> r.err, calls |-> <<>>]
            ELSE [err |-> "nil",
                  calls |-> <<ChildCall(r.child.fs, "RemoveAll",
                                        IF r.onChild THEN r.path ELSE "/",
                                        TRUE)>>]

\* compositeFileSystem.Rename: refused on the root and across children,
\* forwarded within one child.
Rename(cm, oldName, newName) ==
    IF IsRoot(oldName) \/ IsRoot(newName)
    THEN [err |-> "ErrPermission", calls |-> <<>>]
    ELSE LET o == pathToChild(cm, oldName)
             n == pathToChild(cm, newName)
         IN IF o.err # "nil" THEN [err |-> o.err, calls |-> <<>>]
            ELSE IF n.err # "nil" THEN [err |-> n.err, calls |-> <<>>]
            ELSE IF o.child.name # n.child.name
            THEN [err |-> "ErrCrossDevice", calls |-> <<>>]
            ELSE [err |-> "nil",
                  calls |-> <<ChildCall(o.child.fs, "Rename",
                                        IF o.onChild THEN o.path ELSE "/",
                                        TRUE)>>]

-----------------------------------------------------------------------------
(* The remote gateway: permissions, the WebDAV handler, ServeHTTP, SetShares *)

PermissionNone == "None"
PermissionReadOnly == "ReadOnly"
PermissionReadWrite == "ReadWrite"
Permission == {PermissionNone, PermissionReadOnly, PermissionReadWrite}

\* Permissions.For: the permission for a share; a share the object does not
\* name has none.
For(permissions, share) ==
    IF share \in DOMAIN permissions THEN permissions[share] ELSE PermissionNone

StatusNotFound == 404
StatusForbidden == 403

writeMethods ==
    {"PUT", "POST", "COPY", "LOCK", "UNLOCK", "MKCOL", "MOVE", "PROPPATCH"}

\* The other methods whose handling resolves the request path on the filesystem.
readMethods == {"GET", "HEAD", "PROPFIND", "DELETE"}

Methods == writeMethods \cup readMethods

\* One call of the WebDAV handler on its FileSystem.  stopOnErr: the handler
\* answers with the error when the call fails, instead of going on.
FsCall(op, name, to, flag, stopOnErr) ==
    [op |-> op, name |-> name, to |-> to, flag |-> flag, stopOnErr |-> stopOnErr]

\* webdav.Handler: the FileSystem calls a request leads to, one sequence per
\* course the handling can take (existing or missing destination, file or
\* directory source, depth of a PROPFIND).  A source that is the root or a
\* share is a directory.
HandlerPlans(method, path, dest) ==
    LET open(n, f) == FsCall("OpenFile", n, n, f, TRUE)
        stat(n, stop) == FsCall("Stat", n, n, ReadFlag, stop)
        readdir(n) == FsCall("Readdir", n, n, ReadFlag, TRUE)
        mkdir(n) == FsCall("Mkdir", n, n, WriteFlag, TRUE)
        removeAll(n) == FsCall("RemoveAll", n, n, WriteFlag, TRUE)
        rename(o, n) == FsCall("Rename", o, n, WriteFlag, TRUE)
    IN CASE method \in {"GET", "HEAD", "POST"} -> {<<open(path, ReadFlag)>>}
         [] method = "PROPFIND" ->
                {<<stat(path, TRUE)>>, <<stat(path, TRUE), readdir(path)>>}
         [] method = "PROPPATCH" -> {<<stat(path, TRUE)>>}
         [] method = "DELETE" -> {<<stat(path, TRUE), removeAll(path)>>}
         [] method = "PUT" -> {<<open(path, WriteFlag)>>}
         [] method = "MKCOL" -> {<<mkdir(path)>>}
         [] method = "LOCK" ->
                {<<stat(path, TRUE)>>,
                 <<stat(path, FALSE), open(path, WriteFlag)>>}
         [] method = "UNLOCK" -> {<<>>}
         [] method = "COPY" ->
                IF Len(Split(path)) > 1
                THEN {<<open(path, ReadFlag), stat(dest, FALSE),
                        open(dest, WriteFlag)>>,
                      <<open(path, ReadFlag), stat(dest, FALSE),
                        removeAll(dest), open(dest, WriteFlag)>>,
                      <<open(path, ReadFlag), stat(dest, FALSE), mkdir(dest)>>}
                ELSE {<<open(path, ReadFlag), stat(dest, FALSE), mkdir(dest)>>}
         [] method = "MOVE" ->
                {<<stat(dest, FALSE), rename(path, dest)>>,
                 <<stat(dest, FALSE), removeAll(dest), rename(path, dest)>>}
         [] OTHER -> {<<>>}

\* One FileSystem call of the handler on the request's composite.
ApplyFsCall(cm, ch, sc, c) ==
    LET plain(r) ==
            [err |-> r.err, calls |-> r.calls, listed |-> FALSE, listing |-> <<>>]
    IN CASE c.op = "Stat" -> plain(Stat(cm, ch, sc, c.name))
         [] c.op = "OpenFile" -> plain(OpenFile(cm, ch, sc, c.name, c.flag))
         [] c.op = "Mkdir" -> plain(Mkdir(cm, c.name))
         [] c.op = "RemoveAll" -> plain(RemoveAll(cm, c.name))
         [] c.op = "Rename" -> plain(Rename(cm, c.name, c.to))
         [] c.op = "Readdir" ->
                IF IsRoot(c.name)
                THEN LET o == OpenFile(cm, ch, sc, c.name, c.flag)
                         l == LoadChildren(ch, sc)
                     IN [err |-> o.err, calls |-> o.calls \o l.calls,
                         listed |-> TRUE, listing |-> l.infos]
                ELSE plain(OpenFile(cm, ch, sc, c.name, c.flag))

RECURSIVE RunPlan(_, _, _, _, _)
\* The handler's calls in order; it stops at a call that fails and stops it.
RunPlan(cm, ch, sc, plan, acc) ==
    IF plan = <<>> THEN acc
    ELSE LET r == ApplyFsCall(cm, ch, sc, Head(plan))
             next == [err |-> r.err,
                      calls |-> acc.calls \o r.calls,
                      listed |-> acc.listed \/ r.listed,
                      listing |-> IF r.listed THEN r.listing ELSE acc.listing]
         IN IF r.err # "nil" /\ Head(plan).stopOnErr THEN next
            ELSE RunPlan(cm, ch, sc, Tail(plan), [next EXCEPT !.err = "nil"])

\* A gate that lets a write to a read-only share through.
GateNoForbidden(permissions, method, path) ==
    IF method \notin writeMethods THEN "pass"
    ELSE IF Split(path) = <<>> THEN "panic"
    ELSE IF For(permissions, Split(path)[1]) = PermissionNone THEN "notfound"
    ELSE "pass"

\* ServeHTTP's check of a write-class request, before anything is dispatched.
Gate(permissions, method, path) ==
    LET isWrite == method \in writeMethods
    IN IF ~isWrite THEN "pass"
       ELSE IF Split(path) = <<>> THEN "panic"
       ELSE LET share == Split(path)[1]
            IN CASE For(permissions, share) = PermissionNone -> "notfound"
                 [] For(permissions, share) = PermissionReadOnly -> "forbidden"
                 [] OTHER -> "pass"

\* A filter that keeps every installed share.
VisibleChildrenUnfiltered(permissions, fss) ==
    [name \in DOMAIN fss |-> [name |-> name, fs |-> fss[name]]]

\* A filter that keeps only the shares the principal may write.
VisibleChildrenWritable(permissions, fss) ==
    [name \in {n \in DOMAIN fss : For(permissions, n) = PermissionReadWrite} |->
        [name |-> name, fs |-> fss[name]]]

\* ServeHTTP's children: the installed filesystems the principal has access to.
VisibleChildren(permissions, fss) ==
    [name \in {n \in DOMAIN fss : For(permissions, n) # PermissionNone} |->
        [name |-> name, fs |-> fss[name]]]

\* What ServeHTTP answers without dispatching.
Rejected(status) ==
    [status |-> status, dispatched |-> FALSE, panicked |-> FALSE,
     calls |-> <<>>, listed |-> FALSE, listing |-> <<>>]

\* What the handler answers: 404 for a read-class request whose path the
\* filesystem does not know, otherwise a status made from the children's answers
\* (written 200).
Dispatched(method, r) ==
    [status |-> IF r.err = "ErrNotExist" /\ method \in readMethods
                THEN StatusNotFound ELSE 200,
     dispatched |-> TRUE, panicked |-> FALSE,
     calls |-> r.calls, listed |-> r.listed, listing |-> r.listing]

NoRequest == [method |-> "", path |-> <<>>, dest |-> <<>>, permissions |-> <<>>,
              installed |-> {}]

\* fileSystemForRemote.ServeHTTP, with the handler's run on the per-request
\* composite (StatChildren enabled, children set by SetChildren).
ServeHTTP(permissions, method, path, dest) ==
    LET gate == Gate(permissions, method, path)
        cm == VisibleChildren(permissions, fileSystems)
        ch == rebuildChildren(cm)
        empty == [err |-> "nil", calls |-> <<>>, listed |-> FALSE, listing |-> <<>>]
    IN /\ lastReq = NoRequest
       /\ lastReq' = [method |-> method, path |-> path, dest |-> dest,
                      permissions |-> permissions, installed |-> DOMAIN shares]
       /\ CASE gate = "notfound" -> lastResp' = Rejected(StatusNotFound)
            [] gate = "forbidden" -> lastResp' = Rejected(StatusForbidden)
            [] gate = "panic" ->
                   lastResp' = [Rejected(0) EXCEPT !.panicked = TRUE]
            [] OTHER ->
                   \E plan \in HandlerPlans(method, path, dest) :
                       lastResp' = Dispatched(method, RunPlan(cm, ch, TRUE, plan, empty))
       /\ UNCHANGED <<shares, fileSystems, userServers, setSharesCalls,
                      closedFileSystems, closedUserServers>>
       /\ UNCHANGED <<serverVars, nonGatewayVars>>

\* The peer takes the response; the gateway keeps nothing of the request.
TakeResponse ==
    /\ lastReq # NoRequest
    /\ lastReq' = NoRequest
    /\ lastResp' = Rejected(0)
    /\ UNCHANGED <<shares, fileSystems, userServers, setSharesCalls,
                   closedFileSystems, closedUserServers>>
    /\ UNCHANGED <<serverVars, nonGatewayVars>>

\* The owners shares are given to.
Owners == {"u1", "u2"}

\* The arguments of SetShares: share name -> owner.
ShareMaps ==
    UNION {[S -> Owners] : S \in SUBSET ShareNames}

Range(f) == {f[x] : x \in DOMAIN f}

\* AllowShareAs(): fixed by the platform and the build.
AllowShareAs == allowShareAs

\* The subprocesses one user server starts, at most.
MaxSpawns == 2

\* The user server objects SetShares can create: one per call and owner.
ServerIds == (1..MaxSetShares) \X Owners

\* A userServer as SetShares constructs it: no command, no address.  Its
\* subprocesses are listed in the order it started them; each is alive or
\* exited and has printed its first stdout line or nothing yet.
NewServer == [pc |-> "none", cmd |-> 0, addr |-> "", procs |-> <<>>]

\* The user servers SetShares builds: one per Share.As, none unless
\* AllowShareAs().
NewUserServers(k, sh) ==
    IF AllowShareAs
    THEN [o \in Range(sh) |-> <<k, o>>]
    ELSE <<>>

\* The filesystems SetShares builds: one per share.
NewFileSystems(k, sh) == [n \in DOMAIN sh |-> <<k, n>>]

\* go p.runLoop() for each new user server.
StartLoops(svs, S) ==
    [s \in ServerIds |->
        IF s \in S THEN [svs[s] EXCEPT !.pc = "begin"] ELSE svs[s]]

\* A swap that installs the shares and the filesystems and keeps the user
\* servers that were installed.
SwapKeepUserServers(k, sh, cur) ==
    [shares |-> sh,
     fileSystems |-> NewFileSystems(k, sh),
     userServers |-> cur.userServers,
     oldFileSystems |-> cur.fileSystems,
     oldUserServers |-> <<>>]

\* What SetShares does under s.mx: the three maps are replaced by those of
\* call k, and the maps they displace are kept for closing.
Swap(k, sh, cur) ==
    [shares |-> sh,
     fileSystems |-> NewFileSystems(k, sh),
     userServers |-> NewUserServers(k, sh),
     oldFileSystems |-> cur.fileSystems,
     oldUserServers |-> cur.userServers]

\* The three maps as they are installed.
Installed == [shares |-> shares, fileSystems |-> fileSystems,
              userServers |-> userServers]

\* The part of userServer.Close after unlocking: the command it read under
\* the lock is killed, if there was one.
Kill(sv) ==
    IF sv.cmd # 0
    THEN [sv EXCEPT !.procs[sv.cmd].st = "exited"]
    ELSE sv

\* stopUserServers: Close on each server (s.closed is set in
\* closedUserServers by the caller of this operator).
stopUserServers(svs, S) ==
    [s \in ServerIds |-> IF s \in S THEN Kill(svs[s]) ELSE svs[s]]

\* A SetShares call that has not started.
NoCall == [pc |-> "none", sh |-> <<>>, oldFileSystems |-> <<>>,
           oldUserServers |-> <<>>]

\* fileSystemForRemote.SetShares: a user server per owner, a filesystem per
\* share, the three maps swapped, the displaced servers and filesystems closed.
SetShares(sh) ==
    LET k == setSharesCalls + 1
        sw == Swap(k, sh, Installed)
    IN /\ setSharesCalls < MaxSetShares
       /\ setSharesCalls' = k
       /\ shares' = sw.shares
       /\ fileSystems' = sw.fileSystems
       /\ userServers' = sw.userServers
       /\ closedUserServers' = closedUserServers \cup Range(sw.oldUserServers)
       /\ closedFileSystems' = closedFileSystems \cup Range(sw.oldFileSystems)
       /\ servers' = stopUserServers(
                         StartLoops(servers, Range(NewUserServers(k, sh))),
                         Range(sw.oldUserServers))
       /\ calls' = [calls EXCEPT ![k] =
                        [pc |-> "done", sh |-> sh,
                         oldFileSystems |-> sw.oldFileSystems,
                         oldUserServers |-> sw.oldUserServers]]
       /\ UNCHANGED <<lastReq, lastResp, fileServerAddr, allowShareAs, dial>>
       /\ UNCHANGED nonGatewayVars

\* SetShares up to the lock: the user servers are built and their loops
\* started, the filesystems are built.
SetSharesBuild(sh) ==
    LET k == setSharesCalls + 1
    IN /\ setSharesCalls < MaxSetShares
       /\ setSharesCalls' = k
       /\ servers' = StartLoops(servers, Range(NewUserServers(k, sh)))
       /\ calls' = [calls EXCEPT ![k] = [NoCall EXCEPT !.pc = "built", !.sh = sh]]
       /\ UNCHANGED <<shares, fileSystems, userServers, closedFileSystems,
                      closedUserServers, lastReq, lastResp, fileServerAddr,
                      allowShareAs, dial>>
       /\ UNCHANGED nonGatewayVars

\* SetShares under s.mx.
SetSharesSwap(k) ==
    LET sw == Swap(k, calls[k].sh, Installed)
    IN /\ calls[k].pc = "built"
       /\ shares' = sw.shares
       /\ fileSystems' = sw.fileSystems
       /\ userServers' = sw.userServers
       /\ calls' = [calls EXCEPT ![k].pc = "swapped",
                                 ![k].oldFileSystems = sw.oldFileSystems,
                                 ![k].oldUserServers = sw.oldUserServers]
       /\ UNCHANGED <<setSharesCalls, closedFileSystems, closedUserServers,
                      lastReq, lastResp, servers, fileServerAddr,
                      allowShareAs, dial>>
       /\ UNCHANGED nonGatewayVars

\* SetShares after unlocking: stopUserServers and closeFileSystems on what
\* the swap displaced.
SetSharesStop(k) ==
    /\ calls[k].pc = "swapped"
    /\ closedUserServers' = closedUserServers \cup Range(calls[k].oldUserServers)
    /\ closedFileSystems' = closedFileSystems \cup Range(calls[k].oldFileSystems)
    /\ servers' = stopUserServers(servers, Range(calls[k].oldUserServers))
    /\ calls' = [calls EXCEPT ![k].pc = "done"]
    /\ UNCHANGED <<shares, fileSystems, userServers, setSharesCalls, lastReq,
                   lastResp, fileServerAddr, allowShareAs, dial>>
    /\ UNCHANGED nonGatewayVars

\* fileSystemForRemote.Close: the installed servers are stopped and the
\* installed filesystems closed; the maps stay.
GatewayClose ==
    /\ closedUserServers' = closedUserServers \cup Range(userServers)
    /\ closedFileSystems' = closedFileSystems \cup Range(fileSystems)
    /\ servers' = stopUserServers(servers, Range(userServers))
    /\ UNCHANGED <<shares, fileSystems, userServers, setSharesCalls, lastReq,
                   lastResp, calls, fileServerAddr, allowShareAs, dial>>
    /\ UNCHANGED nonGatewayVars

\* The addresses the file server is given.
FileServerAddrs == {"", "fs"}

\* fileSystemForRemote.SetFileServerAddr.
SetFileServerAddr(addr) ==
    /\ fileServerAddr' = addr
    /\ UNCHANGED <<gatewayVars, servers, calls, allowShareAs, dial>>
    /\ UNCHANGED nonGatewayVars


-----------------------------------------------------------------------------
(* The user server: its supervision loop, the subprocess it runs, and the    *)
(* Dial closure that reads its address.  A line of output is a sequence of   *)
(* tokens, " " being white space.                                            *)

\* strings.TrimSpace: leading and trailing white space removed.
RECURSIVE TrimLeft(_)
TrimLeft(l) ==
    IF l # <<>> /\ Head(l) = " " THEN TrimLeft(Tail(l)) ELSE l

RECURSIVE TrimRight(_)
TrimRight(l) ==
    IF l # <<>> /\ l[Len(l)] = " "
    THEN TrimRight(SubSeq(l, 1, Len(l) - 1))
    ELSE l

TrimSpace(l) == TrimRight(TrimLeft(l))

\* The first line the n-th subprocess of a server prints: the address it
\* listens on, or a blank line.
FirstLines(n) == {<<"h" \o ToString(n), " ">>, <<" ">>}

\* A subprocess as cmd.Start() leaves it.
NewProc == [st |-> "alive", out |-> <<>>]

\* The subprocess run() is working with: the one it started last.
Current(sv) == sv.procs[Len(sv.procs)]

\* A loop that gives up after the first run.
runLoopOnce(at, closed) ==
    CASE at = "check" -> IF closed THEN "done" ELSE "run"
      [] at = "sleep" -> "done"

\* runLoop's control: closed is read at the top of every iteration, and
\* run is called again after the sleep.
runLoopNext(at, closed) ==
    CASE at = "check" -> IF closed THEN "done" ELSE "run"
      [] at = "sleep" -> "check"

\* One step of a server's loop changes that server only.
ServerStep(s, sv) ==
    /\ servers' = [servers EXCEPT ![s] = sv]
    /\ UNCHANGED <<gatewayVars, calls, fileServerAddr, allowShareAs, dial>>
    /\ UNCHANGED nonGatewayVars

\* runLoop before the loop: os.Executable() succeeds or the loop returns.
runLoopBegin(s) ==
    /\ servers[s].pc = "begin"
    /\ \E ok \in BOOLEAN :
           ServerStep(s, [servers[s] EXCEPT !.pc = IF ok THEN "check" ELSE "done"])

\* runLoop reads s.closed and returns or calls run.
runLoopCheck(s) ==
    /\ servers[s].pc = "check"
    /\ ServerStep(s, [servers[s] EXCEPT
                         !.pc = runLoopNext("check", s \in closedUserServers)])

\* run up to cmd.Start(): a pipe or the start fails and run returns, or the
\* subprocess is running.
runStart(s) ==
    /\ servers[s].pc = "run"
    /\ \/ ServerStep(s, [servers[s] EXCEPT !.pc = "sleep"])
       \/ /\ Len(servers[s].procs) < MaxSpawns
          /\ ServerStep(s, [servers[s] EXCEPT
                               !.pc = "started",
                               !.procs = Append(@, NewProc)])

\* run records the command under the lock.
runRecord(s) ==
    /\ servers[s].pc = "started"
    /\ ServerStep(s, [servers[s] EXCEPT !.pc = "scan",
                                        !.cmd = Len(servers[s].procs)])

\* run reads the first line of stdout: a line, or the end of the output (an
\* empty text), is trimmed and recorded as the address.
runScan(s) ==
    LET sv == servers[s]
        p == Current(sv)
    IN /\ sv.pc = "scan"
       /\ \/ /\ p.out # <<>>
             /\ ServerStep(s, [sv EXCEPT !.pc = "wait",
                                         !.addr = Render(TrimSpace(p.out[1]))])
          \/ /\ p.out = <<>>
             /\ p.st = "exited"
             /\ ServerStep(s, [sv EXCEPT !.pc = "wait",
                                         !.addr = Render(TrimSpace(<<>>))])

\* The read of the first line fails: run returns without waiting for the
\* subprocess.
runScanErr(s) ==
    /\ servers[s].pc = "scan"
    /\ ServerStep(s, [servers[s] EXCEPT !.pc = "sleep"])

\* cmd.Wait() returns when the subprocess has exited.
runWait(s) ==
    /\ servers[s].pc = "wait"
    /\ Current(servers[s]).st = "exited"
    /\ ServerStep(s, [servers[s] EXCEPT !.pc = "sleep"])

\* time.Sleep(1 * time.Second), then the next iteration.
runLoopSleep(s) ==
    /\ servers[s].pc = "sleep"
    /\ ServerStep(s, [servers[s] EXCEPT
                         !.pc = runLoopNext("sleep", s \in closedUserServers)])

\* The subprocess prints its first line.
ProcPrint(s, n) ==
    /\ n \in 1..Len(servers[s].procs)
    /\ servers[s].procs[n].st = "alive"
    /\ servers[s].procs[n].out = <<>>
    /\ \E line \in FirstLines(n) :
           ServerStep(s, [servers[s] EXCEPT !.procs[n].out = <<line>>])

\* The subprocess exits by itself.
ProcExit(s, n) ==
    /\ n \in 1..Len(servers[s].procs)
    /\ servers[s].procs[n].st = "alive"
    /\ ServerStep(s, [servers[s] EXCEPT !.procs[n].st = "exited"])

\* A dialer that is not dialing.
DialIdle == [at |-> "idle", share |-> "", found |-> FALSE, as |-> "",
             userServers |-> <<>>, fileServerAddr |-> "", addr |-> "",
             err |-> "nil", dialed |-> FALSE]

\* The Dial closure under s.mx.RLock(): the share, the user servers and the
\* file server address are read; an unknown share is an error.
DialLookup(shareName) ==
    /\ dial.at # "read"
    /\ dial' = IF shareName \in DOMAIN shares
               THEN [DialIdle EXCEPT !.at = "read", !.share = shareName,
                                     !.found = TRUE, !.as = shares[shareName],
                                     !.userServers = userServers,
                                     !.fileServerAddr = fileServerAddr]
               ELSE [DialIdle EXCEPT !.at = "done", !.share = shareName,
                                     !.err = "unknown share"]
    /\ UNCHANGED <<gatewayVars, servers, calls, fileServerAddr, allowShareAs>>
    /\ UNCHANGED nonGatewayVars

\* The address the dialer resolves: the file server's, or the one its
\* share's user server has recorded.
DialAddr(d, svs) ==
    IF ~AllowShareAs
    THEN d.fileServerAddr
    ELSE IF d.as \in DOMAIN d.userServers
         THEN svs[d.userServers[d.as]].addr
         ELSE ""

\* A dialer that connects whatever the address.
UnavailableNever(addr) == FALSE

\* The address that cannot be dialed.
Unavailable(addr) == addr = ""

\* The Dial closure after the lock: without an address it fails, with one
\* it connects (net.Dial or safesocket.Connect, which succeed or fail).
DialConnect ==
    LET addr == DialAddr(dial, servers)
    IN /\ dial.at = "read"
       /\ IF Unavailable(addr)
          THEN dial' = [dial EXCEPT !.at = "done", !.addr = addr,
                                    !.err = "unable to determine address"]
          ELSE \E e \in {"nil", "connect"} :
                   dial' = [dial EXCEPT !.at = "done", !.addr = addr,
                                        !.err = e, !.dialed = TRUE]
       /\ UNCHANGED <<gatewayVars, servers, calls, fileServerAddr, allowShareAs>>
       /\ UNCHANGED nonGatewayVars

-----------------------------------------------------------------------------
(* The shared composite: its operations, called by concurrent callers.  The  *)
(* part of an operation that runs under childrenMu is one step; the calls    *)
(* on children it makes after unlocking are a later step.                    *)

\* The goroutine that owns the composite changes its children and closes it;
\* the goroutine that serves requests reads it, while the owner is at work.
Mutators == {"c1"}
Readers == {"c2"}
Callers == Mutators \cup Readers

\* The child filesystems callers hand to the composite; each can be closed.
FS == {1, 2}

\* The arguments of SetChildren: name -> filesystem.
ChildMaps == UNION {[S -> FS] : S \in SUBSET Names}

\* The names bound while routed operations run.
RoutedNames == {"a", "ab"}

\* The paths callers use on the shared composite: the root, a first segment
\* alone, with a trailing slash, and a file below a first segment.
CompositePaths ==
    {<<"/">>}
    \cup {<<"/", s>> : s \in RoutedNames \cup {"x"}}
    \cup {<<"/", s, "/">> : s \in {"a", "x"}}
    \cup {<<"/", s, "/", "x">> : s \in RoutedNames \cup {"x"}}

\* The routed calls callers make.
CompositeCalls ==
    {FsCall(op, p, p, ReadFlag, TRUE) : op \in {"Stat", "OpenFile"}, p \in CompositePaths}
    \cup {FsCall("OpenFile", p, p, WriteFlag, TRUE) : p \in {<<"/", "a", "/", "x">>}}
    \cup {FsCall(op, p, p, WriteFlag, TRUE) :
            op \in {"Mkdir", "RemoveAll"}, p \in {<<"/">>, <<"/", "a", "/", "x">>, <<"/", "x">>}}
    \cup {FsCall("Rename", p, q, WriteFlag, TRUE) :
            p \in {<<"/", "a", "/", "x">>, <<"/", "x", "/", "x">>},
            q \in {<<"/", "a">>, <<"/", "ab", "/", "x">>}}

Idle == [op |-> "", path |-> <<>>, err |-> "nil", calls |-> <<>>,
         toClose |-> <<>>, infos |-> <<>>, bound |-> {}, repeat |-> FALSE,
         same |-> FALSE, known |-> FALSE]

NoReturn == [op |-> "", name |-> "", path |-> <<>>, err |-> "nil", found |-> FALSE,
             fs |-> 0, calls |-> <<>>, listed |-> FALSE, listing |-> <<>>,
             bound |-> {}, replaced |-> 0, repeat |-> FALSE, same |-> FALSE,
             closed |-> <<>>, known |-> FALSE]

NoScenario == [stage |-> 0, name |-> "", old |-> 0, new |-> 0]

\* The name -> filesystem view of a children map.
Bindings(cm) == [n \in DOMAIN cm |-> cm[n].fs]

\* closer.Close() on each filesystem of a list, counted up to MaxCloses.
RECURSIVE CloseAll(_, _)
CloseAll(cc, fss) ==
    IF fss = <<>> THEN cc
    ELSE CloseAll([cc EXCEPT ![Head(fss)] =
                        IF @ < MaxCloses THEN @ + 1 ELSE @], Tail(fss))

\* compositeFileSystem.AddChild
AddChild(c, name, childFS) ==
    LET old == IF name \in DOMAIN childrenMap THEN childrenMap[name].fs ELSE 0
        newMap == [n \in DOMAIN childrenMap \cup {name} |->
                     IF n = name THEN [name |-> name, fs |-> childFS]
                     ELSE childrenMap[n]]
    IN /\ pc[c] = "idle"
       /\ childrenMap' = newMap
       /\ children' = rebuildChildren(newMap)
       /\ ret' = [NoReturn EXCEPT !.op = "AddChild", !.fs = childFS,
                                  !.replaced = old]
       /\ scenario' =
            IF scenario.stage = 1 /\ scenario.name = name /\ scenario.old # childFS
            THEN [scenario EXCEPT !.stage = 2, !.new = childFS]
            ELSE IF scenario.stage \in {1, 2} /\ scenario.name # name
            THEN scenario
            ELSE NoScenario
       /\ UNCHANGED <<statChildren, pc, loc, closeCount>>
       /\ UNCHANGED nonCompositeVars

\* compositeFileSystem.RemoveChild, under the mutex: the child is taken out of
\* the map and the slice is rebuilt.
RemoveChild(c, name) ==
    LET hadOldChild == name \in DOMAIN childrenMap
        newMap == [n \in DOMAIN childrenMap \ {name} |-> childrenMap[n]]
    IN /\ pc[c] = "idle"
       /\ childrenMap' = newMap
       /\ children' = rebuildChildren(newMap)
       /\ scenario' =
            IF scenario.stage \in {1, 2} /\ scenario.name # name
            THEN scenario ELSE NoScenario
       /\ IF hadOldChild
          THEN /\ pc' = [pc EXCEPT ![c] = "RemoveChild_close"]
               /\ loc' = [loc EXCEPT ![c] =
                            [Idle EXCEPT !.op = "RemoveChild",
                                         !.path = <<name>>,
                                         !.toClose = <<childrenMap[name].fs>>]]
               /\ ret' = NoReturn
          ELSE /\ ret' = [NoReturn EXCEPT !.op = "RemoveChild"]
               /\ UNCHANGED <<pc, loc>>
       /\ UNCHANGED <<statChildren, closeCount>>
       /\ UNCHANGED nonCompositeVars

\* compositeFileSystem.RemoveChild, after the mutex: the removed child is closed.
RemoveChildClose(c) ==
    /\ pc[c] = "RemoveChild_close"
    /\ closeCount' = CloseAll(closeCount, loc[c].toClose)
    /\ ret' = [NoReturn EXCEPT !.op = "RemoveChild", !.found = TRUE]
    /\ scenario' = [stage |-> 1, name |-> loc[c].path[1],
                    old |-> loc[c].toClose[1], new |-> 0]
    /\ pc' = [pc EXCEPT ![c] = "idle"]
    /\ loc' = [loc EXCEPT ![c] = Idle]
    /\ UNCHANGED <<childrenMap, children, statChildren>>
    /\ UNCHANGED nonCompositeVars

\* The filesystems of a slice, in slice order.
FsOf(ch) == [i \in 1..Len(ch) |-> ch[i].fs]

\* compositeFileSystem.SetChildren, under the mutex: the old slice is kept, the
\* map is replaced and the slice is rebuilt.
SetChildren(c, m) ==
    LET newChildrenMap == [n \in DOMAIN m |-> [name |-> n, fs |-> m[n]]]
        oldChildren == children
    IN /\ pc[c] = "idle"
       /\ childrenMap' = newChildrenMap
       /\ children' = rebuildChildren(newChildrenMap)
       /\ scenario' = [NoScenario EXCEPT !.stage = 3]
       /\ pc' = [pc EXCEPT ![c] = "SetChildren_close"]
       /\ loc' = [loc EXCEPT ![c] =
                    [Idle EXCEPT !.op = "SetChildren",
                                 !.toClose = FsOf(oldChildren),
                                 !.repeat = /\ scenario.stage = 3
                                            /\ Bindings(childrenMap) = m,
                                 !.same = /\ childrenMap' = childrenMap
                                          /\ children' = children]]
       /\ ret' = NoReturn
       /\ UNCHANGED <<statChildren, closeCount>>
       /\ UNCHANGED nonCompositeVars

\* compositeFileSystem.SetChildren, after the mutex: every old child is closed.
SetChildrenClose(c) ==
    /\ pc[c] = "SetChildren_close"
    /\ closeCount' = CloseAll(closeCount, loc[c].toClose)
    /\ ret' = [NoReturn EXCEPT !.op = "SetChildren", !.repeat = loc[c].repeat,
                               !.same = loc[c].same, !.closed = loc[c].toClose]
    /\ pc' = [pc EXCEPT ![c] = "idle"]
    /\ loc' = [loc EXCEPT ![c] = Idle]
    /\ UNCHANGED <<childrenMap, children, statChildren, scenario>>
    /\ UNCHANGED nonCompositeVars

\* compositeFileSystem.GetChild
GetChild(c, name) ==
    /\ pc[c] = "idle"
    /\ ret' = IF name \in DOMAIN childrenMap
              THEN [NoReturn EXCEPT !.op = "GetChild", !.name = name,
                                    !.found = TRUE, !.fs = childrenMap[name].fs]
              ELSE [NoReturn EXCEPT !.op = "GetChild", !.name = name]
    /\ UNCHANGED <<childrenMap, children, statChildren, pc, loc, closeCount,
                   scenario>>
    /\ UNCHANGED nonCompositeVars

\* compositeFileSystem.Close, under the mutex: the slice is read.
Close(c) ==
    /\ pc[c] = "idle"
    /\ pc' = [pc EXCEPT ![c] = "Close_close"]
    /\ loc' = [loc EXCEPT ![c] = [Idle EXCEPT !.op = "Close",
                                              !.toClose = FsOf(children),
                                              !.repeat = scenario.stage = 4]]
    /\ ret' = NoReturn
    /\ UNCHANGED <<childrenMap, children, statChildren, closeCount, scenario>>
    /\ UNCHANGED nonCompositeVars

\* compositeFileSystem.Close, after the mutex: every child read is closed.
CloseChildren(c) ==
    /\ pc[c] = "Close_close"
    /\ closeCount' = CloseAll(closeCount, loc[c].toClose)
    /\ ret' = [NoReturn EXCEPT !.op = "Close", !.repeat = loc[c].repeat,
                               !.closed = loc[c].toClose]
    /\ scenario' = [NoScenario EXCEPT !.stage = 4]
    /\ pc' = [pc EXCEPT ![c] = "idle"]
    /\ loc' = [loc EXCEPT ![c] = Idle]
    /\ UNCHANGED <<childrenMap, children, statChildren>>
    /\ UNCHANGED nonCompositeVars

\* Whether the first segment of a path is the name of a child of the slice.
KnownChild(ch, p) ==
    /\ Split(p) # <<>>
    /\ \E i \in 1..Len(ch) : ch[i].name = Split(p)[1]

\* A Stat, OpenFile, Mkdir, RemoveAll or Rename on the shared composite, up to
\* the point where the mutex is released: the child and the path are decided.
FsBegin(c, call) ==
    LET r == ApplyFsCall(childrenMap, children, statChildren,
                         call)
        known == \A p \in {call.name, call.to} : KnownChild(children, p)
    IN /\ pc[c] = "idle"
       /\ IF r.calls = <<>>
          THEN /\ ret' = [NoReturn EXCEPT !.op = call.op, !.path = call.name,
                                          !.err = r.err, !.known = known]
               /\ UNCHANGED <<pc, loc>>
          ELSE /\ pc' = [pc EXCEPT ![c] = "calling"]
               /\ loc' = [loc EXCEPT ![c] =
                            [Idle EXCEPT !.op = call.op, !.path = call.name,
                                         !.calls = r.calls, !.known = known]]
               /\ ret' = NoReturn
       /\ UNCHANGED <<childrenMap, children, statChildren, closeCount,
                      scenario>>
       /\ UNCHANGED nonCompositeVars

\* The calls on children of the operation in progress, the mutex released; a
\* child may answer with an error, which ends the operation.
FsCalls(c) ==
    /\ pc[c] = "calling"
    /\ \E n \in 1..Len(loc[c].calls), ok \in BOOLEAN :
          /\ ok => n = Len(loc[c].calls)
          /\ ret' = [NoReturn EXCEPT !.op = loc[c].op, !.path = loc[c].path,
                                     !.err = IF ok THEN "nil" ELSE "childErr",
                                     !.known = loc[c].known,
                                     !.calls = SubSeq(loc[c].calls, 1, n)]
    /\ pc' = [pc EXCEPT ![c] = "idle"]
    /\ loc' = [loc EXCEPT ![c] = Idle]
    /\ UNCHANGED <<childrenMap, children, statChildren, closeCount,
                   scenario>>
    /\ UNCHANGED nonCompositeVars

\* Readdir on the root's directory file: LoadChildren reads the slice under the
\* mutex.
Readdir(c) ==
    LET l == LoadChildren(children, statChildren)
    IN /\ pc[c] = "idle"
       /\ IF l.calls = <<>>
          THEN /\ ret' = [NoReturn EXCEPT !.op = "Readdir", !.listed = TRUE,
                                          !.listing = l.infos,
                                          !.bound = DOMAIN childrenMap]
               /\ UNCHANGED <<pc, loc>>
          ELSE /\ pc' = [pc EXCEPT ![c] = "loading"]
               /\ loc' = [loc EXCEPT ![c] =
                            [Idle EXCEPT !.op = "Readdir",
                                         !.calls = l.calls, !.infos = l.infos,
                                         !.bound = DOMAIN childrenMap]]
               /\ ret' = NoReturn
       /\ UNCHANGED <<childrenMap, children, statChildren, closeCount,
                      scenario>>
       /\ UNCHANGED nonCompositeVars

\* LoadChildren's Stat of each child, the mutex released; the first child that
\* fails ends the listing with its error.
ReaddirCalls(c) ==
    /\ pc[c] = "loading"
    /\ \E ok \in BOOLEAN :
          ret' = [NoReturn EXCEPT !.op = "Readdir",
                                  !.err = IF ok THEN "nil" ELSE "childErr",
                                  !.listed = ok,
                                  !.listing = IF ok THEN loc[c].infos ELSE <<>>,
                                  !.bound = loc[c].bound]
    /\ pc' = [pc EXCEPT ![c] = "idle"]
    /\ loc' = [loc EXCEPT ![c] = Idle]
    /\ UNCHANGED <<childrenMap, children, statChildren, closeCount,
                   scenario>>
    /\ UNCHANGED nonCompositeVars

-----------------------------------------------------------------------------
(* The read-only remote file (readOnlyFile).  Each method runs under f.mu    *)
(* where the code takes it; Read is two steps, the stream being read after   *)
(* initReaderIfNecessary has released the mutex.                             *)

FileCallers == {"r1", "r2"}

\* A nil fs.FileInfo, an fs.FileInfo that holds a nil file, and a file's info.
NoInfo == [kind |-> "nil", size |-> 0]
TypedNilInfo == [kind |-> "typednil", size |-> 0]
Info(n) == [kind |-> "info", size |-> n]

\* The sizes the server reports.
Sizes == {0, 7}

\* client.Stat: the file's info, or an error next to the client's *File result,
\* which then holds no file (nil, or an interface holding a nil pointer).
StatOutcomes ==
    {[err |-> "nil", info |-> Info(n)] : n \in Sizes}
    \cup {[err |-> "statErr", info |-> i] : i \in {NoInfo, TypedNilInfo}}

\* client.ReadStream: a stream, or an error and no stream.
ReadStreamOutcomes == {"nil", "readStreamErr"}

\* translateWebDAVError: nil stays nil, an error becomes an error of the
\* filesystem's taxonomy.
translateWebDAVError(err) == IF err = "nil" THEN "nil" ELSE "translated " \o err

SeekStart == 0
SeekEnd == 2
Whences == {0, 1, 2}
Offsets == {-1, 0, 1}

FileIdle == [at |-> "idle", afterClose |-> FALSE, opened |-> FALSE]

NoFileReturn ==
    [op |-> "", err |-> "nil", pos |-> 0, panicked |-> FALSE, opened |-> FALSE,
     afterClose |-> FALSE, statted |-> FALSE, statErr |-> FALSE, whence |-> 0,
     offset |-> 0, info |-> NoInfo]

\* Whether a method can be called on a file info: a nil interface and an
\* interface holding a nil file have nothing to answer with.
Usable(info) == info.kind = "info"

\* readOnlyFile.statIfNecessary: when f.fi is nil, f.fi takes what client.Stat
\* returned, whether or not it returned an error.
statIfNecessary(info, out) ==
    IF info.kind = "nil"
    THEN [fi |-> out.info, err |-> translateWebDAVError(out.err), called |-> TRUE]
    ELSE [fi |-> info, err |-> "nil", called |-> FALSE]

\* readOnlyFile.Seek after statIfNecessary succeeded: the switch on whence.
SeekResult(info, offset, whence) ==
    IF whence = SeekEnd /\ offset = 0
    THEN IF Usable(info) THEN [pos |-> info.size, err |-> "nil", panicked |-> FALSE]
         ELSE [pos |-> 0, err |-> "nil", panicked |-> TRUE]
    ELSE IF whence = SeekStart /\ offset = 0
    THEN [pos |-> 0, err |-> "nil", panicked |-> FALSE]
    ELSE IF Usable(info)
    THEN [pos |-> 0, err |-> "seek not supported", panicked |-> FALSE]
    ELSE [pos |-> 0, err |-> "nil", panicked |-> TRUE]

\* readOnlyFile.Seek
FileSeek(c, offset, whence) ==
    /\ filePc[c].at = "idle"
    /\ fi.kind = "nil" => fileCalls.stat < MaxFileCalls
    /\ \E out \in StatOutcomes :
          LET st == statIfNecessary(fi, out)
              r == SeekResult(st.fi, offset, whence)
          IN /\ fi' = st.fi
             /\ fileCalls' = IF st.called
                             THEN [fileCalls EXCEPT !.stat = @ + 1]
                             ELSE fileCalls
             /\ fileRet' =
                  IF st.err # "nil"
                  THEN [NoFileReturn EXCEPT !.op = "Seek", !.err = st.err,
                                            !.statted = TRUE, !.statErr = TRUE,
                                            !.whence = whence, !.offset = offset]
                  ELSE [NoFileReturn EXCEPT !.op = "Seek", !.err = r.err,
                                            !.pos = r.pos,
                                            !.panicked = r.panicked,
                                            !.statted = st.called,
                                            !.whence = whence, !.offset = offset]
    /\ UNCHANGED <<readCloser, filePc, fileClosed>>
    /\ UNCHANGED nonFileVars

\* readOnlyFile.Stat
FileStat(c) ==
    /\ filePc[c].at = "idle"
    /\ fileRet' = [NoFileReturn EXCEPT !.op = "Stat",
                                      !.info = IF fi.kind # "nil" THEN fi
                                               ELSE Info(0)]
    /\ UNCHANGED <<fi, readCloser, fileCalls, filePc, fileClosed>>
    /\ UNCHANGED nonFileVars

\* readOnlyFile.initReaderIfNecessary: when f.ReadCloser is nil it takes what
\* client.ReadStream returned.
initReaderIfNecessary(stream, out) ==
    IF stream = "nil"
    THEN [stream |-> IF out = "nil" THEN "open" ELSE "nil",
          err |-> translateWebDAVError(out), called |-> TRUE]
    ELSE [stream |-> stream, err |-> "nil", called |-> FALSE]

\* readOnlyFile.Read, up to the return of initReaderIfNecessary.
FileRead(c) ==
    /\ filePc[c].at = "idle"
    /\ readCloser = "nil" => fileCalls.readStream < MaxFileCalls
    /\ \E out \in ReadStreamOutcomes :
          LET r == initReaderIfNecessary(readCloser, out)
          IN /\ readCloser' = r.stream
             /\ fileCalls' = IF r.called
                             THEN [fileCalls EXCEPT !.readStream = @ + 1]
                             ELSE fileCalls
             /\ IF r.err # "nil"
                THEN /\ fileRet' = [NoFileReturn EXCEPT
                                       !.op = "Read", !.err = r.err,
                                       !.opened = r.called,
                                       !.afterClose = fileClosed]
                     /\ UNCHANGED filePc
                ELSE /\ filePc' = [filePc EXCEPT ![c] =
                                     [at |-> "reading", afterClose |-> fileClosed,
                                      opened |-> r.called]]
                     /\ fileRet' = NoFileReturn
    /\ UNCHANGED <<fi, fileClosed>>
    /\ UNCHANGED nonFileVars

\* readOnlyFile.Read: f.ReadCloser.Read(p).  A closed stream fails; an open one
\* gives bytes or its own error.
FileReadStream(c) ==
    /\ filePc[c].at = "reading"
    /\ \E err \in IF readCloser = "open" THEN {"nil", "EOF"} ELSE {"closed"} :
          fileRet' = [NoFileReturn EXCEPT !.op = "Read", !.err = err,
                                         !.opened = filePc[c].opened,
                                         !.afterClose = filePc[c].afterClose]
    /\ filePc' = [filePc EXCEPT ![c] = FileIdle]
    /\ UNCHANGED <<fi, readCloser, fileCalls, fileClosed>>
    /\ UNCHANGED nonFileVars

\* readOnlyFile.Write
FileWrite(c) ==
    /\ filePc[c].at = "idle"
    /\ fileRet' = IF Usable(fi)
                  THEN [NoFileReturn EXCEPT !.op = "Write", !.err = "read-only"]
                  ELSE [NoFileReturn EXCEPT !.op = "Write", !.panicked = TRUE]
    /\ UNCHANGED <<fi, readCloser, fileCalls, filePc, fileClosed>>
    /\ UNCHANGED nonFileVars

\* readOnlyFile.Readdir
FileReaddir(c) ==
    /\ filePc[c].at = "idle"
    /\ fileRet' = IF Usable(fi)
                  THEN [NoFileReturn EXCEPT !.op = "Readdir", !.err = "is a file"]
                  ELSE [NoFileReturn EXCEPT !.op = "Readdir", !.panicked = TRUE]
    /\ UNCHANGED <<fi, readCloser, fileCalls, filePc, fileClosed>>
    /\ UNCHANGED nonFileVars

\* readOnlyFile.Close
FileClose(c) ==
    /\ filePc[c].at = "idle"
    /\ readCloser # "nil" => fileCalls.close < MaxFileCalls
    /\ fileClosed' = TRUE
    /\ IF readCloser = "nil"
       THEN UNCHANGED <<readCloser, fileCalls>>
       ELSE /\ readCloser' = "closed"
            /\ fileCalls' = [fileCalls EXCEPT !.close = @ + 1]
    /\ fileRet' = [NoFileReturn EXCEPT !.op = "Close", !.afterClose = fileClosed]
    /\ UNCHANGED <<fi, filePc>>
    /\ UNCHANGED nonFileVars

-----------------------------------------------------------------------------
(* The local gateway: a top-level composite whose children are the domain    *)
(* composites, whose children are the remote filesystems of the peers.  A    *)
(* domain composite is named by the SetRemotes call that created it, a       *)
(* remote filesystem by the call that constructed it and the peer's name.    *)

\* The SetRemotes calls made, at most.
MaxSetRemotes == 2

\* The domains and the peers SetRemotes is called with.
Domains == {"d1", "d2"}
PeerNames == {"p", "q"}

\* A SetRemotes call that has not started.
NoSetRemotes == [pc |-> "none", domain |-> "", names |-> {}, child |-> 0,
                 old |-> {}]

\* The remote filesystems a call constructs: one per name.
Remotes(j, names) == [n \in names |-> <<j, n>>]

\* compositeFileSystem.Close on each of a set of domain composites: every
\* child it has at that moment is closed.
CloseComposites(cs) == UNION {Range(composites[c]) : c \in cs}

\* A step of the local gateway leaves the rest alone.
LocalStep == UNCHANGED nonLocalVars

\* SetRemotes up to GetChild: the remotes are constructed and the domain is
\* looked up in the top-level composite.
SetRemotesGet(domain, names) ==
    \E j \in 1..MaxSetRemotes :
        /\ setRemotes[j].pc = "none"
        /\ \A i \in 1..(j - 1) : setRemotes[i].pc # "none"
        /\ setRemotes' = [setRemotes EXCEPT ![j] =
               [pc |-> IF domain \in DOMAIN domains THEN "inner" ELSE "top",
                domain |-> domain, names |-> names,
                child |-> IF domain \in DOMAIN domains THEN domains[domain] ELSE j,
                old |-> {}]]
        /\ UNCHANGED <<domains, composites, remotesClosed>>
        /\ LocalStep

\* The domain was not found: s.cfs.SetChildren({domain: domainChild}) under
\* the top-level composite's mutex.
SetRemotesTop(j) ==
    /\ setRemotes[j].pc = "top"
    /\ domains' = [d \in {setRemotes[j].domain} |-> setRemotes[j].child]
    /\ setRemotes' = [setRemotes EXCEPT ![j].pc = "topClose",
                                        ![j].old = Range(domains)]
    /\ UNCHANGED <<composites, remotesClosed>>
    /\ LocalStep

\* ... and after unlocking: the domain composites it displaced are closed.
SetRemotesTopClose(j) ==
    /\ setRemotes[j].pc = "topClose"
    /\ remotesClosed' = remotesClosed \cup CloseComposites(setRemotes[j].old)
    /\ setRemotes' = [setRemotes EXCEPT ![j].pc = "inner", ![j].old = {}]
    /\ UNCHANGED <<domains, composites>>
    /\ LocalStep

\* domainChild.SetChildren(remotes) under the domain composite's mutex.
SetRemotesInner(j) ==
    LET c == setRemotes[j].child
    IN /\ setRemotes[j].pc = "inner"
       /\ composites' = [composites EXCEPT ![c] = Remotes(j, setRemotes[j].names)]
       /\ setRemotes' = [setRemotes EXCEPT ![j].pc = "innerClose",
                                           ![j].old = Range(composites[c])]
       /\ UNCHANGED <<domains, remotesClosed>>
       /\ LocalStep

\* ... and after unlocking: the remotes it displaced are closed.
SetRemotesInnerClose(j) ==
    /\ setRemotes[j].pc = "innerClose"
    /\ remotesClosed' = remotesClosed \cup setRemotes[j].old
    /\ setRemotes' = [setRemotes EXCEPT ![j].pc = "done", ![j].old = {}]
    /\ UNCHANGED <<domains, composites>>
    /\ LocalStep

-----------------------------------------------------------------------------
(* The composite's mutex.  Every operation of the composite is the sequence  *)
(* of its Lock and Unlock of childrenMu and of its calls on children, in     *)
(* the order the code makes them.  A call on a child runs in the caller's    *)
(* goroutine, and the child may call back into the composite.                *)

\* The operations of the composite.
MuOps == {"StatRoot", "Stat", "OpenFileRoot", "LoadChildren", "OpenFile",
          "AddChild", "RemoveChild", "SetChildren", "GetChild", "Close"}

\* The calls made on a child filesystem.
ChildCalls == {"child.Stat", "child.OpenFile", "child.Close"}

\* n calls, one per child.
Each(call, n) == [i \in 1..n |-> call]

\* The calls an operation makes on children: n is the number of children it
\* found under the mutex (for a routed operation and for RemoveChild, whether
\* it found its child), sc is statChildren.
CallsOf(op, n, sc) ==
    CASE op \in {"StatRoot", "OpenFileRoot", "LoadChildren"} ->
             IF sc THEN Each("child.Stat", n) ELSE <<>>
      [] op = "Stat" -> IF n > 0 THEN <<"child.Stat">> ELSE <<>>
      [] op = "OpenFile" -> IF n > 0 THEN <<"child.OpenFile">> ELSE <<>>
      [] op = "RemoveChild" -> IF n > 0 THEN <<"child.Close">> ELSE <<>>
      [] op \in {"SetChildren", "Close"} -> Each("child.Close", n)
      [] OTHER -> <<>>

\* Operations that unlock on return and call their children before it.
ProgramDeferredUnlock(op, n, sc) ==
    IF op \in {"StatRoot", "OpenFileRoot"} /\ ~sc
    THEN <<>>
    ELSE <<"Lock">> \o CallsOf(op, n, sc) \o <<"Unlock">>

\* The steps of an operation: the mutex is taken, the map or the slice is
\* read or replaced, the mutex is released, and then the children are
\* called.  Stat and OpenFile of the root do not touch the mutex unless
\* statChildren is set.
Program(op, n, sc) ==
    IF op \in {"StatRoot", "OpenFileRoot"} /\ ~sc
    THEN <<>>
    ELSE <<"Lock", "Unlock">> \o CallsOf(op, n, sc)

\* A step on the mutex leaves the rest alone.
MuStep(c, rest) ==
    /\ todo' = [todo EXCEPT ![c] = rest]
    /\ UNCHANGED nonMuVars

\* A caller enters an operation of the composite.
MuBegin(c, op, n) ==
    /\ todo[c] = <<>>
    /\ Program(op, n, statChildren) # <<>>
    /\ MuStep(c, Program(op, n, statChildren))
    /\ UNCHANGED childrenMu

\* cfs.childrenMu.Lock(): waits until the mutex is free.
MuLock(c) ==
    /\ todo[c] # <<>>
    /\ Head(todo[c]) = "Lock"
    /\ childrenMu = "free"
    /\ childrenMu' = c
    /\ MuStep(c, Tail(todo[c]))

\* cfs.childrenMu.Unlock().
MuUnlock(c) ==
    /\ todo[c] # <<>>
    /\ Head(todo[c]) = "Unlock"
    /\ childrenMu' = "free"
    /\ MuStep(c, Tail(todo[c]))

\* A call on a child returns.
MuChildCall(c) ==
    /\ todo[c] # <<>>
    /\ Head(todo[c]) \in ChildCalls
    /\ MuStep(c, Tail(todo[c]))
    /\ UNCHANGED childrenMu

\* A call on a child calls GetChild on the composite before it goes on.
MuChildReenters(c) ==
    /\ todo[c] # <<>>
    /\ Head(todo[c]) \in ChildCalls
    /\ Len(Program("GetChild", 0, statChildren) \o todo[c]) <= MaxTodo
    /\ MuStep(c, Program("GetChild", 0, statChildren) \o todo[c])
    /\ UNCHANGED childrenMu

-----------------------------------------------------------------------------
(* Initial states and specifications *)

InitGateway ==
    /\ shares = <<>>
    /\ fileSystems = <<>>
    /\ userServers = <<>>
    /\ setSharesCalls = 0
    /\ closedFileSystems = {}
    /\ closedUserServers = {}
    /\ lastReq = NoRequest
    /\ lastResp = Rejected(0)

InitComposite ==
    /\ childrenMap = <<>>
    /\ children = <<>>
    /\ pc = [c \in Callers |-> "idle"]
    /\ loc = [c \in Callers |-> Idle]
    /\ ret = NoReturn
    /\ closeCount = [f \in FS |-> 0]
    /\ scenario = NoScenario

\* A file as webdavfs opens it: no refreshed info, no stream.
InitFile ==
    /\ fi = NoInfo
    /\ readCloser = "nil"
    /\ fileCalls = [readStream |-> 0, stat |-> 0, close |-> 0]
    /\ filePc = [c \in FileCallers |-> FileIdle]
    /\ fileClosed = FALSE
    /\ fileRet = NoFileReturn

\* No user server built, no SetShares call made, no dialer dialing.
InitServers ==
    /\ servers = [s \in ServerIds |-> NewServer]
    /\ calls = [k \in 1..MaxSetShares |-> NoCall]
    /\ fileServerAddr = ""
    /\ dial = DialIdle

\* The local gateway as serveAt leaves it: an empty top-level composite.
InitLocal ==
    /\ domains = <<>>
    /\ composites = [j \in 1..MaxSetRemotes |-> <<>>]
    /\ remotesClosed = {}
    /\ setRemotes = [j \in 1..MaxSetRemotes |-> NoSetRemotes]

\* The arguments of SetShares when every share has the same owner.
OneOwnerShareMaps == {sh \in ShareMaps : Range(sh) \subseteq {"u1"}}

\* The mutex of a composite nobody is using.
InitMu ==
    /\ childrenMu = "free"
    /\ todo = [c \in Callers |-> <<>>]

\* The remote gateway: SetShares and ServeHTTP.
Init ==
    /\ InitGateway
    /\ InitComposite
    /\ InitFile
    /\ InitServers
    /\ InitLocal
    /\ InitMu
    /\ allowShareAs = TRUE
    /\ statChildren = FALSE

Next ==
    \/ \E sh \in OneOwnerShareMaps : SetShares(sh)
    \/ \E permissions \in [ShareNames -> Permission], method \in Methods,
          path \in GatewayPaths :
          \E dest \in IF method \in {"COPY", "MOVE"}
                      THEN {<<"/", s, "/", "x">> : s \in ShareNames \cup {"x"}}
                      ELSE {path} :
              ServeHTTP(permissions, method, path, dest)
    \/ TakeResponse

Spec == Init /\ [][Next]_vars

\* The shared composite under concurrent callers.
InitC ==
    /\ InitGateway
    /\ InitComposite
    /\ InitFile
    /\ InitServers
    /\ InitLocal
    /\ InitMu
    /\ allowShareAs = TRUE
    /\ statChildren \in BOOLEAN

NextC ==
    \/ \E c \in Mutators, name \in Names, f \in FS : AddChild(c, name, f)
    \/ \E c \in Mutators, name \in Names : RemoveChild(c, name)
    \/ \E c \in Mutators : RemoveChildClose(c)
    \/ \E c \in Mutators, m \in ChildMaps : SetChildren(c, m)
    \/ \E c \in Mutators : SetChildrenClose(c)
    \/ \E c \in Readers, name \in Names : GetChild(c, name)
    \/ \E c \in Mutators : Close(c)
    \/ \E c \in Mutators : CloseChildren(c)
    \/ \E c \in Readers : Readdir(c)
    \/ \E c \in Readers : ReaddirCalls(c)

SpecC == InitC /\ [][NextC]_vars

\* Routed operations on the shared composite while its children change.
NextR ==
    \/ \E c \in Mutators, name \in RoutedNames, f \in FS : AddChild(c, name, f)
    \/ \E c \in Mutators, name \in RoutedNames : RemoveChild(c, name)
    \/ \E c \in Mutators : RemoveChildClose(c)
    \/ \E c \in Readers, call \in CompositeCalls : FsBegin(c, call)
    \/ \E c \in Readers : FsCalls(c)

SpecR == InitC /\ [][NextR]_vars

\* One read-only remote file used by concurrent callers.
NextF ==
    \/ \E c \in FileCallers, offset \in Offsets, whence \in Whences :
          FileSeek(c, offset, whence)
    \/ \E c \in FileCallers : FileStat(c)
    \/ \E c \in FileCallers : FileRead(c)
    \/ \E c \in FileCallers : FileReadStream(c)
    \/ \E c \in FileCallers : FileWrite(c)
    \/ \E c \in FileCallers : FileReaddir(c)
    \/ \E c \in FileCallers : FileClose(c)

SpecF == Init /\ [][NextF]_vars

\* The gateway on either platform.
InitU ==
    /\ InitGateway
    /\ InitComposite
    /\ InitFile
    /\ InitServers
    /\ InitLocal
    /\ InitMu
    /\ allowShareAs \in BOOLEAN
    /\ statChildren = FALSE

\* One share of one owner: its user server from SetShares to Close, the
\* subprocesses it runs, and a dialer of the share.
OneShare == [n \in {"a"} |-> "u1"]

NextU ==
    \/ setSharesCalls = 0 /\ SetSharesBuild(OneShare)
    \/ \E k \in 1..MaxSetShares : SetSharesSwap(k)
    \/ \E k \in 1..MaxSetShares : SetSharesStop(k)
    \/ GatewayClose
    \/ \E addr \in FileServerAddrs : SetFileServerAddr(addr)
    \/ \E s \in ServerIds : runLoopBegin(s)
    \/ \E s \in ServerIds : runLoopCheck(s)
    \/ \E s \in ServerIds : runStart(s)
    \/ \E s \in ServerIds : runRecord(s)
    \/ \E s \in ServerIds : runScan(s)
    \/ \E s \in ServerIds : runScanErr(s)
    \/ \E s \in ServerIds : runWait(s)
    \/ \E s \in ServerIds : runLoopSleep(s)
    \/ \E s \in ServerIds, n \in 1..MaxSpawns : ProcPrint(s, n)
    \/ \E s \in ServerIds, n \in 1..MaxSpawns : ProcExit(s, n)
    \/ \E shareName \in ShareNames : DialLookup(shareName)
    \/ DialConnect

SpecU == InitU /\ [][NextU]_vars

\* The loop of a user server keeps running: each of its steps is taken if
\* it stays possible.  A failing read of the first line is not one of them:
\* nothing makes it happen.
runLoopStep(s) ==
    \/ runLoopBegin(s)
    \/ runLoopCheck(s)
    \/ runStart(s)
    \/ runRecord(s)
    \/ runScan(s)
    \/ runWait(s)
    \/ runLoopSleep(s)

\* One user server under supervision: SetShares installs it, Close stops
\* it, its subprocesses print and exit.
NextLoop ==
    \/ setSharesCalls = 0 /\ SetSharesBuild(OneShare)
    \/ \E k \in 1..MaxSetShares : SetSharesSwap(k)
    \/ \E k \in 1..MaxSetShares : SetSharesStop(k)
    \/ GatewayClose
    \/ \E s \in ServerIds : runLoopBegin(s)
    \/ \E s \in ServerIds : runLoopCheck(s)
    \/ \E s \in ServerIds : runStart(s)
    \/ \E s \in ServerIds : runRecord(s)
    \/ \E s \in ServerIds : runScan(s)
    \/ \E s \in ServerIds : runScanErr(s)
    \/ \E s \in ServerIds : runWait(s)
    \/ \E s \in ServerIds : runLoopSleep(s)
    \/ \E s \in ServerIds, n \in 1..MaxSpawns : ProcPrint(s, n)
    \/ \E s \in ServerIds, n \in 1..MaxSpawns : ProcExit(s, n)

SpecLoop ==
    InitU /\ [][NextLoop]_vars /\ \A s \in ServerIds : WF_vars(runLoopStep(s))

\* The arguments of concurrent SetShares calls: no share, or one share of
\* either owner.
ConcurrentShareMaps == UNION {[S -> Owners] : S \in {{}, {"a"}}}

\* A peer allowed to read and write every share.
AllAccess == [n \in ShareNames |-> PermissionReadWrite]

\* Concurrent SetShares calls, a dialer and a peer listing the root.
NextS ==
    \/ \E sh \in ConcurrentShareMaps : SetSharesBuild(sh)
    \/ \E k \in 1..MaxSetShares : SetSharesSwap(k)
    \/ \E k \in 1..MaxSetShares : SetSharesStop(k)
    \/ \E shareName \in ShareNames : DialLookup(shareName)
    \/ DialConnect
    \/ ServeHTTP(AllAccess, "PROPFIND", <<"/">>, <<"/">>)
    \/ TakeResponse

SpecS == InitU /\ [][NextS]_vars

\* SetShares calls and the loops of the user servers they start, up to the
\* first subprocess of each.
NextP ==
    \/ \E sh \in ConcurrentShareMaps : SetSharesBuild(sh)
    \/ \E k \in 1..MaxSetShares : SetSharesSwap(k)
    \/ \E k \in 1..MaxSetShares : SetSharesStop(k)
    \/ \E s \in ServerIds : runLoopBegin(s)
    \/ \E s \in ServerIds : runLoopCheck(s)
    \/ \E s \in ServerIds : runStart(s)
    \/ \E s \in ServerIds : runRecord(s)

SpecP == InitU /\ [][NextP]_vars

\* The local gateway under concurrent SetRemotes calls.
NextLocal ==
    \/ \E domain \in Domains, names \in SUBSET PeerNames :
          SetRemotesGet(domain, names)
    \/ \E j \in 1..MaxSetRemotes : SetRemotesTop(j)
    \/ \E j \in 1..MaxSetRemotes : SetRemotesTopClose(j)
    \/ \E j \in 1..MaxSetRemotes : SetRemotesInner(j)
    \/ \E j \in 1..MaxSetRemotes : SetRemotesInnerClose(j)

SpecLocal == Init /\ [][NextLocal]_vars

\* No SetRemotes call is in progress.
NoSetRemotesRunning ==
    \A j \in 1..MaxSetRemotes : setRemotes[j].pc \in {"none", "done"}

\* The local gateway under SetRemotes calls made one after the other.
NextLocalSeq ==
    \/ /\ NoSetRemotesRunning
       /\ \E domain \in Domains, names \in SUBSET PeerNames :
              SetRemotesGet(domain, names)
    \/ \E j \in 1..MaxSetRemotes : SetRemotesTop(j)
    \/ \E j \in 1..MaxSetRemotes : SetRemotesTopClose(j)
    \/ \E j \in 1..MaxSetRemotes : SetRemotesInner(j)
    \/ \E j \in 1..MaxSetRemotes : SetRemotesInnerClose(j)

SpecLocalSeq == Init /\ [][NextLocalSeq]_vars

\* The number of children an operation finds.
ChildCounts == 0..Cardinality(FS)

\* The composite's mutex under concurrent callers whose children call back.
NextMu ==
    \/ \E c \in Callers, op \in MuOps, n \in ChildCounts : MuBegin(c, op, n)
    \/ \E c \in Callers : MuLock(c)
    \/ \E c \in Callers : MuUnlock(c)
    \/ \E c \in Callers : MuChildCall(c)
    \/ \E c \in Callers : MuChildReenters(c)

SpecMu == InitC /\ [][NextMu]_vars

-----------------------------------------------------------------------------
(* Properties of the remote gateway (checked under Spec) *)

\* The share a request names: its first path segment.
ReqShare == Split(lastReq.path)[1]

\* The share a filesystem object of the gateway was made for.
ShareOf(f) == f[2]

\* C1: a write-class request whose first path segment is share S is answered 403
\* when permissions.For(S) is ReadOnly and 404 when it is None, in both cases
\* without being dispatched to the WebDAV handler or reaching any child
\* filesystem; with ReadWrite it is dispatched.
C1_WriteGate ==
    (lastReq.method \in writeMethods /\ Split(lastReq.path) # <<>>) =>
        LET p == For(lastReq.permissions, ReqShare)
        IN /\ p = PermissionReadOnly =>
                /\ lastResp.status = StatusForbidden
                /\ ~lastResp.dispatched
                /\ lastResp.calls = <<>>
           /\ p = PermissionNone =>
                /\ lastResp.status = StatusNotFound
                /\ ~lastResp.dispatched
                /\ lastResp.calls = <<>>
           /\ p = PermissionReadWrite => lastResp.dispatched

\* C1 witness: a write to an installed read-only share was answered 403.
C1_Witness ==
    /\ lastReq.method \in writeMethods
    /\ Split(lastReq.path) # <<>>
    /\ ReqShare \in lastReq.installed
    /\ For(lastReq.permissions, ReqShare) = PermissionReadOnly
    /\ lastResp.status = StatusForbidden

\* C2: the child filesystem of a share receives an OpenFile with write, create
\* or truncate flags only if the principal's permission for that share is
\* ReadWrite; this is the claim for the calls made through
\* compositeFileSystem.OpenFile, the destination of a COPY included.
C2_WritesOnlyToReadWriteShares ==
    \A i \in 1..Len(lastResp.calls) :
        (lastResp.calls[i].write /\ lastResp.calls[i].op = "OpenFile") =>
            For(lastReq.permissions, ShareOf(lastResp.calls[i].fs))
                = PermissionReadWrite

C4_RootListing ==
    lastResp.listed =>
        LET visible == {s \in lastReq.installed :
                          For(lastReq.permissions, s) # PermissionNone}
        IN /\ {lastResp.listing[i] : i \in 1..Len(lastResp.listing)} = visible
           /\ Len(lastResp.listing) = Cardinality(visible)

\* C4 witness: a listing of the root with one installed share shown and another
\* installed share hidden.
C4_Witness ==
    /\ lastResp.listed
    /\ Len(lastResp.listing) = 1
    /\ Cardinality(lastReq.installed) = 2

-----------------------------------------------------------------------------
(* Properties of the shared composite (checked under SpecC) *)

\* C5: in every reachable state the children slice holds exactly the bindings
\* of the map (same names, same child per name, no duplicates) in strictly
\* ascending name order, and a listing of the root returns one entry per child
\* of the slice it read, in that order.
C5_ChildrenSorted ==
    /\ Len(children) = Cardinality(DOMAIN childrenMap)
    /\ \A i \in 1..Len(children) :
          /\ children[i].name \in DOMAIN childrenMap
          /\ childrenMap[children[i].name] = children[i]
    /\ \A i \in 1..(Len(children) - 1) :
          BytesLess(NameBytes(children[i].name), NameBytes(children[i + 1].name))
    /\ (ret.op = "Readdir" /\ ret.listed) =>
          /\ {ret.listing[i] : i \in 1..Len(ret.listing)} = ret.bound
          /\ Len(ret.listing) = Cardinality(ret.bound)
          /\ \A i \in 1..(Len(ret.listing) - 1) :
                BytesLess(NameBytes(ret.listing[i]), NameBytes(ret.listing[i + 1]))

\* C5 witness: a listing of three children returned after the children were
\* changed under it.
C5_Witness ==
    /\ ret.op = "Readdir"
    /\ ret.listed
    /\ Len(ret.listing) = 3
    /\ DOMAIN childrenMap # ret.bound

\* C6: when AddChild(n, c') replaces the child c bound to n, c has been closed
\* exactly once.
C6_ReplacedChildClosedOnce ==
    (ret.op = "AddChild" /\ ret.replaced \notin {0, ret.fs}) =>
        closeCount[ret.replaced] = 1

\* C7: after RemoveChild(n) followed by AddChild(n, c'), the map, the slice and
\* GetChild resolve n to c', and the removed child has been closed exactly once.
C7_RemoveThenAdd ==
    scenario.stage = 2 =>
        /\ scenario.name \in DOMAIN childrenMap
        /\ childrenMap[scenario.name].fs = scenario.new
        /\ \A i \in 1..Len(children) :
              children[i].name = scenario.name => children[i].fs = scenario.new
        /\ (ret.op = "GetChild" /\ ret.name = scenario.name) =>
              (ret.found /\ ret.fs = scenario.new)
        /\ closeCount[scenario.old] = 1

\* C8: a SetChildren(M) that follows a SetChildren(M) leaves the map and the
\* slice as they were and closes no child.
C8_SetChildrenTwice ==
    (ret.op = "SetChildren" /\ ret.repeat) =>
        (ret.same /\ ret.closed = <<>>)

\* C9: a Close of the composite that follows a Close of it, with no change of
\* the children in between, invokes the close of no child again.
C9_CloseIdempotent ==
    (ret.op = "Close" /\ ret.repeat) => ret.closed = <<>>

-----------------------------------------------------------------------------
(* Properties of routed operations (checked under SpecR) *)

RoutedOps == {"Stat", "OpenFile", "Mkdir", "RemoveAll", "Rename"}

\* C10: a routed operation on a non-root name whose first segment is not the
\* name of a child, at the moment the operation holds the mutex, fails with
\* ErrNotExist and makes no call on any child filesystem.
C10_UnknownNameNotFound ==
    (ret.op \in RoutedOps /\ ~IsRoot(ret.path) /\ ~ret.known) =>
        (ret.err = "ErrNotExist" /\ ret.calls = <<>>)

\* C10 witness: OpenFile of /a/x failed with ErrNotExist while the only child
\* was ab.
C10_Witness ==
    /\ ret.op = "OpenFile"
    /\ ret.path = <<"/", "a", "/", "x">>
    /\ DOMAIN childrenMap = {"ab"}
    /\ ~ret.known
    /\ ret.err = "ErrNotExist"

-----------------------------------------------------------------------------
(* Properties of the read-only remote file (checked under SpecF) *)

\* C11: over the life of a file, Read issues at most one ReadStream call, also
\* when the first attempt returned an error.
C11_OneStreamOpen == fileCalls.readStream <= 1

\* C12: a Read that starts after Close was called fails and opens no stream.
C12_ReadAfterCloseFails ==
    (fileRet.op = "Read" /\ fileRet.afterClose) =>
        (fileRet.err # "nil" /\ ~fileRet.opened)

\* C13: Write returns the read-only error and Readdir the "is a file" error in
\* every state of the file, without crashing.
C13_WriteReaddirFail ==
    /\ fileRet.op = "Write" => (~fileRet.panicked /\ fileRet.err = "read-only")
    /\ fileRet.op = "Readdir" => (~fileRet.panicked /\ fileRet.err = "is a file")

\* C14: Seek answers (end, 0) with the size of the fresh stat and (start, 0)
\* with 0, fails for every other pair, and when its stat fails returns that
\* error with position 0 and leaves f.fi unset.
C14_Seek ==
    fileRet.op = "Seek" =>
        IF fileRet.statErr
        THEN /\ fileRet.pos = 0
             /\ fileRet.err = translateWebDAVError("statErr")
             /\ fi = NoInfo
        ELSE /\ ~fileRet.panicked
             /\ IF fileRet.whence = SeekEnd /\ fileRet.offset = 0
                THEN fileRet.err = "nil" /\ fileRet.pos = fi.size
                ELSE IF fileRet.whence = SeekStart /\ fileRet.offset = 0
                THEN fileRet.err = "nil" /\ fileRet.pos = 0
                ELSE fileRet.err # "nil" /\ fileRet.pos = 0

-----------------------------------------------------------------------------
(* Properties of the user servers (checked under SpecP, SpecU, SpecLoop, SpecS) *)

\* The subprocesses of an owner's user servers that are alive.
LiveProcs(o) ==
    {x \in ServerIds \X (1..MaxSpawns) :
        /\ x[1][2] = o
        /\ x[2] <= Len(servers[x[1]].procs)
        /\ servers[x[1]].procs[x[2]].st = "alive"}

\* C15: in every reachable state each owner has at most one live subprocess
\* (so none is started for an owner while an earlier one of that owner is
\* alive), whatever SetShares calls, closes, exits and restarts came before.
C15_OneSubprocessPerOwner ==
    \A o \in Owners : Cardinality(LiveProcs(o)) <= 1

\* C16: once userServer.Close has returned, the server has no live
\* subprocess and its loop starts no new one, whatever the loop was doing when
\* Close arrived.
C16_CloseStopsServer ==
    [][\A s \in closedUserServers :
          /\ \A n \in 1..Len(servers[s].procs) : servers[s].procs[n].st # "alive"
          /\ Len(servers'[s].procs) = Len(servers[s].procs)]_vars

\* C17: a user server whose subprocess has exited reaches the backoff; from
\* the backoff, unless it is closed, it gets to run again; a loop that has
\* read closed as true ends; and a loop that has ended stays ended.
C17_Supervision ==
    /\ \A s \in ServerIds :
           /\ (servers[s].pc \in {"scan", "wait"}
                 /\ Current(servers[s]).st = "exited")
                  ~> (servers[s].pc = "sleep")
           /\ (servers[s].pc = "sleep" /\ s \notin closedUserServers)
                  ~> (servers[s].pc = "run" \/ s \in closedUserServers)
           /\ (servers[s].pc = "check" /\ s \in closedUserServers)
                  ~> (servers[s].pc = "done")
    /\ [][\A s \in ServerIds :
             servers[s].pc = "done" => servers'[s].pc = "done"]_vars

\* C17 witness: a server that is not closed has run a second subprocess after
\* its first one exited.
C17_Witness ==
    \E s \in ServerIds :
        /\ s \notin closedUserServers
        /\ Len(servers[s].procs) = 2
        /\ servers[s].procs[1].st = "exited"
        /\ servers[s].pc = "scan"

\* C18: the address of a user server is empty until one of its subprocesses
\* has printed a first line, and is then such a line, trimmed; a dial that
\* resolves the empty address returns an error and connects to nothing.
C18_NoAddressNoDial ==
    /\ \A s \in ServerIds :
           servers[s].addr # "" =>
               \E n \in 1..Len(servers[s].procs) :
                   /\ servers[s].procs[n].out # <<>>
                   /\ servers[s].addr = Render(TrimSpace(servers[s].procs[n].out[1]))
    /\ (dial.at = "done" /\ dial.addr = "") =>
           (dial.err # "nil" /\ ~dial.dialed)

\* C18 witness: with share-as enabled, a dial of an installed share whose
\* user server has no address yet has failed.
C18_Witness ==
    /\ allowShareAs
    /\ dial.at = "done"
    /\ dial.found
    /\ dial.as \in DOMAIN dial.userServers
    /\ servers[dial.userServers[dial.as]].pc = "scan"
    /\ dial.addr = ""
    /\ dial.err = "unable to determine address"
    /\ ~dial.dialed

\* The SetShares calls whose swap has happened.
Swapped == {k \in 1..MaxSetShares : calls[k].pc \in {"swapped", "done"}}

\* The filesystem objects a response was computed from.
Served == {lastResp.calls[i].fs : i \in 1..Len(lastResp.calls)}

\* C20: the three installed maps are always those of one SetShares call (or
\* the empty maps of a gateway no call has reached), so with share-as enabled
\* every installed share has the user server of its owner; a dialer that has
\* read them has the server of its share's owner, a request is served by the
\* filesystems of one call, and what a call displaced is not closed before
\* the call has left the lock.
C20_AtomicSwap ==
    /\ \/ shares = <<>> /\ fileSystems = <<>> /\ userServers = <<>>
       \/ \E k \in Swapped :
              /\ shares = calls[k].sh
              /\ fileSystems = NewFileSystems(k, calls[k].sh)
              /\ userServers = NewUserServers(k, calls[k].sh)
    /\ AllowShareAs => \A n \in DOMAIN shares : shares[n] \in DOMAIN userServers
    /\ (AllowShareAs /\ dial.found) => dial.as \in DOMAIN dial.userServers
    /\ lastResp.dispatched =>
           \/ Served = {} /\ lastReq.installed = {}
           \/ \E k \in Swapped :
                  /\ Served = Range(NewFileSystems(k, calls[k].sh))
                  /\ lastReq.installed = DOMAIN calls[k].sh
    /\ \A k \in 1..MaxSetShares :
           calls[k].pc = "swapped" =>
               /\ Range(calls[k].oldUserServers) \cap closedUserServers = {}
               /\ Range(calls[k].oldFileSystems) \cap closedFileSystems = {}

\* C20 witness: a dialer has read the maps of a second SetShares call, which
\* has swapped them in and has not yet closed what it displaced.
C20_Witness ==
    \E k \in 1..MaxSetShares :
        /\ calls[k].pc = "swapped"
        /\ calls[k].oldUserServers # <<>>
        /\ dial.at = "read"
        /\ dial.userServers = NewUserServers(k, calls[k].sh)
        /\ dial.userServers # <<>>

-----------------------------------------------------------------------------
(* Properties of concurrent replacements (checked under SpecLocal, SpecS) *)

\* The SetRemotes calls that have returned.
Returned == {j \in 1..MaxSetRemotes : setRemotes[j].pc = "done"}

\* C19: when SetRemotes calls for one domain have all returned, the peers
\* installed under the domain are the remotes of exactly one of the calls,
\* none of them closed, and every remote another call constructed has been
\* closed.  (The same for SetShares is SetSharesLastWriterWins.)
C19_LastWriterWins ==
    (/\ Returned # {}
     /\ \A j \in 1..MaxSetRemotes : setRemotes[j].pc \in {"none", "done"}
     /\ \A i, j \in Returned : setRemotes[i].domain = setRemotes[j].domain)
    => \E j \in Returned :
           LET d == setRemotes[j].domain
               mine == Remotes(j, setRemotes[j].names)
           IN /\ DOMAIN domains = {d}
              /\ composites[domains[d]] = mine
              /\ Range(mine) \cap remotesClosed = {}
              /\ \A i \in Returned \ {j} :
                     Range(Remotes(i, setRemotes[i].names)) \subseteq remotesClosed

\* When SetShares calls have all returned, the three installed maps are
\* those of exactly one of the calls, none of its filesystems and servers
\* closed, and every filesystem and server another call built has been closed.
SetSharesLastWriterWins ==
    (/\ setSharesCalls > 0
     /\ \A k \in 1..setSharesCalls : calls[k].pc = "done")
    => \E k \in 1..setSharesCalls :
           /\ shares = calls[k].sh
           /\ fileSystems = NewFileSystems(k, calls[k].sh)
           /\ userServers = NewUserServers(k, calls[k].sh)
           /\ Range(fileSystems) \cap closedFileSystems = {}
           /\ Range(userServers) \cap closedUserServers = {}
           /\ \A i \in (1..setSharesCalls) \ {k} :
                  /\ Range(NewFileSystems(i, calls[i].sh)) \subseteq closedFileSystems
                  /\ Range(NewUserServers(i, calls[i].sh)) \subseteq closedUserServers

-----------------------------------------------------------------------------
(* Properties of the local gateway (checked under SpecLocalSeq) *)

\* The most recent returned SetRemotes call for a domain.
LastFor(d) ==
    CHOOSE j \in Returned :
        /\ setRemotes[j].domain = d
        /\ \A i \in Returned : setRemotes[i].domain = d => i <= j

\* C21: after SetRemotes calls made one after the other, every domain that
\* was set is a child of the top-level composite, the peers under it are
\* exactly the names of the most recent call for that domain, and the remotes
\* that call installed are not closed, whatever was set for other domains
\* since.
C21_DomainsKept ==
    NoSetRemotesRunning =>
        \A d \in {setRemotes[j].domain : j \in Returned} :
            /\ d \in DOMAIN domains
            /\ DOMAIN composites[domains[d]] = setRemotes[LastFor(d)].names
            /\ Range(Remotes(LastFor(d), setRemotes[LastFor(d)].names))
                   \cap remotesClosed = {}

-----------------------------------------------------------------------------
(* Properties of the composite's mutex (checked under SpecMu) *)

\* C22: a caller that is about to call a child (Stat, OpenFile or Close), or
\* whose child is about to take the mutex again, does not hold the mutex.
C22_MutexNotHeldInChild ==
    \A c \in Callers :
        (todo[c] # <<>> /\ Head(todo[c]) \in ChildCalls \cup {"Lock"})
            => childrenMu # c

\* C22 witness: a caller is closing the children SetChildren displaced, the
\* child has called back into the composite, and the other caller has the
\* mutex.
C22_Witness ==
    \E c \in Callers :
        /\ Len(todo[c]) = 4
        /\ todo[c] = <<"Lock", "Unlock", "child.Close", "child.Close">>
        /\ childrenMu \in Callers \ {c}

-----------------------------------------------------------------------------
(* Properties of the forwarded path (checked under SpecR) *)

\* C23: a routed Stat or OpenFile that called a child handed it "/" when the
\* name was the child's name alone, and otherwise the segments after the
\* child's name joined with "/".
C23_ForwardedPath ==
    (/\ ret.op \in {"Stat", "OpenFile"}
     /\ ~IsRoot(ret.path)
     /\ ret.calls # <<>>)
    => ret.calls[1].path =
           IF Len(Split(ret.path)) = 1
           THEN "/"
           ELSE Join(Tail(Split(ret.path)))

-----------------------------------------------------------------------------
(* Properties of the address a dialer is given (checked under SpecU) *)

\* C24: with share-as enabled, when a dialer resolves a non-empty address,
\* a subprocess of the user server it read is alive at that moment and that
\* address is the first line it printed.
C24_AddressOfLiveSubprocess ==
    [][(/\ allowShareAs
        /\ dial.at = "read"
        /\ dial'.at = "done"
        /\ dial'.addr # "")
       => LET sv == servers[dial.userServers[dial.as]]
          IN \E n \in 1..Len(sv.procs) :
                 /\ sv.procs[n].st = "alive"
                 /\ sv.procs[n].out # <<>>
                 /\ Render(TrimSpace(sv.procs[n].out[1])) = dial'.addr]_vars

-----------------------------------------------------------------------------
(* Properties of requests without a share (checked under Spec) *)

\* C25: ServeHTTP answers every write-class request, and one whose path has
\* no first segment is answered without the handler crashing and without
\* being dispatched.
C25_WriteWithoutShare ==
    lastReq.method \in writeMethods =>
        /\ ~lastResp.panicked
        /\ Split(lastReq.path) = <<>> => ~lastResp.dispatched

====
